---- MODULE Spec2Model ----
(***************************************************************************)
(* Model of src/src/utils.py: the two distance functions of GeoUtil and    *)
(* the grid pipeline of VisualGeoData (create_grid, visualize_by_index).   *)
(*                                                                         *)
(* Coordinates are integers (exact arithmetic stands for the floats of the *)
(* source).  A Python value is a record [t, v]: t = "none" for None,       *)
(* t = "str" for a non-numeric object, t = "num" for a number v.           *)
(***************************************************************************)
EXTENDS Integers, Sequences, FiniteSets, TLC

VARIABLES
    pc,                     \* "ready" | "returned" | "raised"
    called,                 \* name of the function that ran ("" before the call)
    x1, y1, x2, y2,         \* arguments of the distance functions
    round_decimal_digits,   \* argument of the distance functions
    bnd_,                   \* boundary GeoDataFrame: sequence of geometries
    grid_size,              \* argument grid_size
    index_bot20_within_bnd, \* point GeoDataFrame: sequence of [x, y, total_idx]
    index_method,           \* "reverse" | "reverse_log"
    grid,                   \* the grid GeoDataFrame: sequence of rows
    points_within_grid,     \* result of the points/grid spatial join
    dLon,                   \* local dLon of get_euclidean_distance when it returned
    ret                     \* returned value, or the exception raised

vars == <<pc, called, x1, y1, x2, y2, round_decimal_digits, bnd_, grid_size,
          index_bot20_within_bnd, index_method, grid, points_within_grid,
          dLon, ret>>

distVars == <<x1, y1, x2, y2, round_decimal_digits>>
gridVars == <<bnd_, grid_size, index_bot20_within_bnd, index_method>>

(***************************************************************************)
(* Bounds of the model.                                                    *)
(***************************************************************************)
MaxDigits == 1
MaxExtent == 4
MaxPolys == 2
MaxPoints == 2

(***************************************************************************)
(* Python values.                                                          *)
(***************************************************************************)
None == [t |-> "none", v |-> 0]
NotANumber == [t |-> "str", v |-> 0]
Num(n) == [t |-> "num", v |-> n]

Abs(n) == IF n < 0 THEN -n ELSE n
Min(a, b) == IF a <= b THEN a ELSE b
Max(a, b) == IF a >= b THEN a ELSE b

RECURSIVE Pow10(_)
Pow10(d) == IF d = 0 THEN 1 ELSE 10 * Pow10(d - 1)

(***************************************************************************)
(* GeoUtil: the None test and the range assertions shared by both distance *)
(* functions.                                                              *)
(***************************************************************************)
AnyNone_OnlyFirstPoint(a1, b1, a2, b2) == a1 = None \/ b1 = None

AnyNone(a1, b1, a2, b2) == a1 = None \/ b1 = None \/ a2 = None \/ b2 = None

LonOk_Strict(a) == a.t = "num" /\ -180 < a.v /\ a.v < 180

LonOk(a) == a.t = "num" /\ -180 <= a.v /\ a.v <= 180

LatOk(b) == b.t = "num" /\ -90 <= b.v /\ b.v <= 90

AssertsPass(a1, b1, a2, b2) == LonOk(a1) /\ LatOk(b1) /\ LonOk(a2) /\ LatOk(b2)

(***************************************************************************)
(* round(math.sqrt(n), digits) as a fixed-point number scaled by 10^digits.*)
(* sqrt of an integer is an integer or irrational, so no rounding tie.     *)
(***************************************************************************)
RECURSIVE IsqrtBetween(_, _, _)
IsqrtBetween(m, lo, hi) ==
    IF lo = hi THEN lo
    ELSE LET mid == (lo + hi + 1) \div 2
         IN  IF mid * mid <= m THEN IsqrtBetween(m, mid, hi)
             ELSE IsqrtBetween(m, lo, mid - 1)

Isqrt(m) == IsqrtBetween(m, 0, Min(m, 46340))

RoundSqrt(n, digits) ==
    LET m == n * Pow10(digits) * Pow10(digits)
        r == Isqrt(m)
    IN  IF m - r * r > r THEN r + 1 ELSE r

EuclidDLon_NoWrap(a1, a2) == Abs(a2 - a1)

EuclidDLon(a1, a2) ==
    LET d == Abs(a2 - a1)
    IN  IF d >= 180 THEN d - 360 ELSE d

get_euclidean_distance(a1, b1, a2, b2, digits) ==
    IF AnyNone(a1, b1, a2, b2) THEN [kind |-> "None"]
    ELSE IF ~AssertsPass(a1, b1, a2, b2) THEN [kind |-> "AssertionError"]
    ELSE LET dl == EuclidDLon(a1.v, a2.v)
             dLat == b2.v - b1.v
         IN  [kind |-> "float", digits |-> digits,
              scaled |-> RoundSqrt(dl * dl + dLat * dLat, digits)]

\* The haversine value itself (lines 70-79) needs sin, cos and atan2; it is
\* kept as the term "haversine of these four numbers rounded to digits".
get_harversion_distance(a1, b1, a2, b2, digits) ==
    IF AnyNone(a1, b1, a2, b2) THEN [kind |-> "None"]
    ELSE IF ~AssertsPass(a1, b1, a2, b2) THEN [kind |-> "AssertionError"]
    ELSE [kind |-> "float", digits |-> digits,
          km |-> <<a1.v, b1.v, a2.v, b2.v>>]

Outcome(r) == IF r.kind = "AssertionError" THEN "raised" ELSE "returned"

XValues == {None, NotANumber} \cup {Num(n) : n \in {-181, -180, -179, 0, 179, 180, 181, 200}}
YValues == {None, NotANumber} \cup {Num(n) : n \in {-91, -90, 0, 1, 90, 91}}

InitDist ==
    /\ pc = "ready"
    /\ called = ""
    /\ x1 \in XValues /\ x2 \in XValues
    /\ y1 \in YValues /\ y2 \in YValues
    /\ round_decimal_digits \in 0..MaxDigits
    /\ bnd_ = <<>>
    /\ grid_size = 0
    /\ index_bot20_within_bnd = <<>>
    /\ index_method = "reverse"
    /\ grid = <<>>
    /\ points_within_grid = <<>>
    /\ dLon = 0
    /\ ret = [kind |-> "pending"]

HarversionDistance ==
    /\ pc = "ready"
    /\ LET r == get_harversion_distance(x1, y1, x2, y2, round_decimal_digits)
       IN  /\ ret' = r
           /\ pc' = Outcome(r)
    /\ called' = "get_harversion_distance"
    /\ UNCHANGED <<distVars, gridVars, grid, points_within_grid, dLon>>

EuclideanDistance ==
    /\ pc = "ready"
    /\ LET r == get_euclidean_distance(x1, y1, x2, y2, round_decimal_digits)
       IN  /\ ret' = r
           /\ pc' = Outcome(r)
           /\ dLon' = IF r.kind = "float" THEN EuclidDLon(x1.v, x2.v) ELSE 0
    /\ called' = "get_euclidean_distance"
    /\ UNCHANGED <<distVars, gridVars, grid, points_within_grid>>

NextDist == HarversionDistance \/ EuclideanDistance

SpecDist == InitDist /\ [][NextDist]_vars

(***************************************************************************)
(* VisualGeoData.create_grid.  A geometry of the boundary frame is its     *)
(* bounding rectangle [minx, miny, maxx, maxy]; a grid cell keeps the four *)
(* corner coordinates the source passes to Polygon.                        *)
(***************************************************************************)
RECURSIVE SeqMin(_, _)
SeqMin(s, k) == IF k = Len(s) THEN s[k] ELSE Min(s[k], SeqMin(s, k + 1))

RECURSIVE SeqMax(_, _)
SeqMax(s, k) == IF k = Len(s) THEN s[k] ELSE Max(s[k], SeqMax(s, k + 1))

\* gdf.total_bounds of a non-empty frame
total_bounds(gdf) ==
    [xmin |-> SeqMin([k \in 1..Len(gdf) |-> gdf[k].minx], 1),
     ymin |-> SeqMin([k \in 1..Len(gdf) |-> gdf[k].miny], 1),
     xmax |-> SeqMax([k \in 1..Len(gdf) |-> gdf[k].maxx], 1),
     ymax |-> SeqMax([k \in 1..Len(gdf) |-> gdf[k].maxy], 1)]

NpCeilDiv_Floor(a, b) == IF b > 0 THEN a \div b ELSE (-a) \div (-b)

\* int(np.ceil(a / b)) for b # 0
NpCeilDiv(a, b) == IF b > 0 THEN -((-a) \div b) ELSE -(a \div (-b))

Polygon(x_left, x_right, y_top, y_bottom) ==
    [x_left |-> x_left, x_right |-> x_right, y_top |-> y_top, y_bottom |-> y_bottom]

RECURSIVE GridRows_NoStep(_, _, _, _, _, _, _)
GridRows_NoStep(j, rows, x_left, x_right, y_top, y_bottom, S) ==
    IF j >= rows THEN <<>>
    ELSE <<Polygon(x_left, x_right, y_top, y_bottom)>>
         \o GridRows_NoStep(j + 1, rows, x_left, x_right, y_top, y_bottom, S)

\* the inner loop "for j in range(rows)" from iteration j on
RECURSIVE GridRows(_, _, _, _, _, _, _)
GridRows(j, rows, x_left, x_right, y_top, y_bottom, S) ==
    IF j >= rows THEN <<>>
    ELSE <<Polygon(x_left, x_right, y_top, y_bottom)>>
         \o GridRows(j + 1, rows, x_left, x_right, y_top - S, y_bottom - S, S)

\* the outer loop "for i in range(cols)" from iteration i on
RECURSIVE GridCols(_, _, _, _, _, _, _, _)
GridCols(i, cols, rows, x_left_origin, x_right_origin, y_top_origin, y_bottom_origin, S) ==
    IF i >= cols THEN <<>>
    ELSE GridRows(0, rows, x_left_origin, x_right_origin, y_top_origin, y_bottom_origin, S)
         \o GridCols(i + 1, cols, rows, x_left_origin + S, x_right_origin + S,
                     y_top_origin, y_bottom_origin, S)

\* A float64 divided by 0 is inf (nan for 0/0) and int() of it raises.
create_grid(gdf, S) ==
    LET b == total_bounds(gdf)
    IN  IF S = 0
        THEN [kind |-> IF b.ymax - b.ymin = 0 THEN "ValueError" ELSE "OverflowError",
              rows |-> <<>>]
        ELSE LET rows == NpCeilDiv(b.ymax - b.ymin, S)
                 cols == NpCeilDiv(b.xmax - b.xmin, S)
                 polygons == GridCols(0, cols, rows, b.xmin, b.xmin + S,
                                      b.ymax, b.ymax - S, S)
             IN  [kind |-> "GeoDataFrame",
                  rows |-> [k \in 1..Len(polygons) |->
                               [index |-> k - 1, geometry |-> polygons[k]]]]

GridOutcome(r) == IF r.kind = "GeoDataFrame" THEN "returned" ELSE "raised"

Geometries ==
    {[minx |-> a, miny |-> b, maxx |-> a + w, maxy |-> b + h] :
        a \in 0..1, b \in 0..1, w \in 0..MaxExtent, h \in 0..MaxExtent}

GridSizes == -2..3

InitGrid ==
    /\ pc = "ready"
    /\ called = ""
    /\ x1 = None /\ y1 = None /\ x2 = None /\ y2 = None
    /\ round_decimal_digits = 0
    /\ \E g \in Geometries : bnd_ = <<g>>
    /\ grid_size \in GridSizes
    /\ index_bot20_within_bnd = <<>>
    /\ index_method = "reverse"
    /\ grid = <<>>
    /\ points_within_grid = <<>>
    /\ dLon = 0
    /\ ret = [kind |-> "pending"]

CreateGrid ==
    /\ pc = "ready"
    /\ LET r == create_grid(bnd_, grid_size)
       IN  /\ ret' = [kind |-> r.kind]
           /\ grid' = r.rows
           /\ pc' = GridOutcome(r)
    /\ called' = "create_grid"
    /\ UNCHANGED <<distVars, gridVars, points_within_grid, dLon>>

NextGrid == CreateGrid

SpecGrid == InitGrid /\ [][NextGrid]_vars

(***************************************************************************)
(* VisualGeoData.visualize_by_index, from the call of create_grid to the   *)
(* assignment of grid['idx_sum_reverse'].  bnd_ and index_bot20_within_bnd *)
(* are the frames already restricted to cityname.                          *)
(*                                                                         *)
(* A float is [kind, n, d]: "num" is the rational n/d, "ln" is ln(n/d),    *)
(* "inf" is +infinity and "nan" is NaN (no value).                         *)
(***************************************************************************)
RECURSIVE Gcd(_, _)
Gcd(a, b) == IF b = 0 THEN a ELSE Gcd(b, a % b)

Rat(kind, n, d) == [kind |-> kind, n |-> n \div Gcd(n, d), d |-> d \div Gcd(n, d)]
Inf == [kind |-> "inf", n |-> 0, d |-> 0]
NaN == [kind |-> "nan", n |-> 0, d |-> 0]

\* shapely "intersects" of a grid cell and a boundary geometry (closed sets)
Intersects(cell, g) ==
    /\ cell.x_left <= g.maxx /\ g.minx <= cell.x_right
    /\ cell.y_bottom <= g.maxy /\ g.miny <= cell.y_top

\* shapely "within" of a point and a grid cell: the boundary is excluded
Within(p, cell) ==
    /\ cell.x_left < p.x /\ p.x < cell.x_right
    /\ cell.y_bottom < p.y /\ p.y < cell.y_top

RECURSIVE Flatten(_)
Flatten(ss) == IF ss = <<>> THEN <<>> ELSE Head(ss) \o Flatten(Tail(ss))

\* gpd.sjoin(grid, bnd_[["geometry", "ADM_NM"]], how='inner',
\* predicate='intersects') and the drop of index_right: one row per pair
\* (cell, boundary row) that intersects; the row keeps the cell's index.
sjoin_intersects(g, bnd) ==
    Flatten([c \in 1..Len(g) |->
        LET pairs == [k \in 1..Len(bnd) |->
                         [index |-> g[c].index, geometry |-> g[c].geometry,
                          ADM_NM |-> k]]
        IN  SelectSeq(pairs, LAMBDA r : Intersects(r.geometry, bnd[r.ADM_NM]))])

\* gpd.sjoin(points, grid, how='inner', predicate='within'): one row per pair
\* (point, grid row) with the point within the row's cell; index_right is
\* the index label of the grid row.
sjoin_within(points, g) ==
    Flatten([p \in 1..Len(points) |->
        LET pairs == [r \in 1..Len(g) |->
                         [index |-> p - 1, x |-> points[p].x, y |-> points[p].y,
                          total_idx |-> points[p].total_idx,
                          index_right |-> g[r].index, geometry |-> g[r].geometry]]
        IN  SelectSeq(pairs, LAMBDA r : Within(r, r.geometry))])

total_idx_reverse_NoInvert(method, t) == Rat("num", t, 1)

\* 1 / total_idx and np.log1p(1 / total_idx) on a float column, total_idx >= 0
total_idx_reverse(method, t) ==
    IF t = 0 THEN Inf
    ELSE IF method = "reverse" THEN Rat("num", 1, t)
    ELSE Rat("ln", t + 1, t)

FloatAdd(a, b) ==
    IF a.kind = "nan" \/ b.kind = "nan" THEN NaN
    ELSE IF a.kind = "inf" \/ b.kind = "inf" THEN Inf
    ELSE IF a.kind = "ln" THEN Rat("ln", a.n * b.n, a.d * b.d)
    ELSE Rat("num", a.n * b.d + b.n * a.d, a.d * b.d)

RECURSIVE SeriesSum(_)
SeriesSum(s) == IF Len(s) = 1 THEN s[1] ELSE FloatAdd(s[1], SeriesSum(Tail(s)))

\* points_within_grid.groupby('index_right')["total_idx_reverse"].sum():
\* the group of one label
GroupRows(pwg, label) == SelectSeq(pwg, LAMBDA r : r.index_right = label)

GroupSum(pwg, label) ==
    SeriesSum([k \in 1..Len(GroupRows(pwg, label)) |->
                  GroupRows(pwg, label)[k].total_idx_reverse])

AssignColumn_FillZero(g, pwg) ==
    [r \in 1..Len(g) |->
        [index |-> g[r].index, geometry |-> g[r].geometry, ADM_NM |-> g[r].ADM_NM,
         idx_sum_reverse |->
            IF GroupRows(pwg, g[r].index) = <<>> THEN Rat("num", 0, 1)
            ELSE GroupSum(pwg, g[r].index)]]

\* grid['idx_sum_reverse'] = grid_idx_sum_reverse: aligned on the index
\* label, NaN where the series has no such label
AssignColumn(g, pwg) ==
    [r \in 1..Len(g) |->
        [index |-> g[r].index, geometry |-> g[r].geometry, ADM_NM |-> g[r].ADM_NM,
         idx_sum_reverse |->
            IF GroupRows(pwg, g[r].index) = <<>> THEN NaN
            ELSE GroupSum(pwg, g[r].index)]]

AddReverse(pwg, method) ==
    [k \in 1..Len(pwg) |->
        [index |-> pwg[k].index, x |-> pwg[k].x, y |-> pwg[k].y,
         total_idx |-> pwg[k].total_idx, index_right |-> pwg[k].index_right,
         total_idx_reverse |-> total_idx_reverse(method, pwg[k].total_idx)]]

Rect(a, b, c, d) == [minx |-> a, miny |-> b, maxx |-> c, maxy |-> d]
Point(a, b, t) == [x |-> a, y |-> b, total_idx |-> t]

PolyList ==
    <<Rect(0, 0, 4, 4), Rect(0, 0, 2, 4), Rect(0, 0, 1, 1), Rect(3, 3, 4, 4),
      Rect(1, 1, 3, 3)>>

PointList ==
    <<Point(1, 1, 0), Point(1, 1, 1), Point(1, 1, 2),
      Point(1, 2, 0), Point(1, 2, 1), Point(1, 2, 2),
      Point(1, 3, 0), Point(1, 3, 1), Point(1, 3, 2),
      Point(3, 3, 0), Point(3, 3, 1), Point(3, 3, 2)>>

\* the frames of at most n rows drawn from list, one row order per choice
Frames(list, lo, n) ==
    UNION {{[k \in 1..m |-> list[f[k]]] :
               f \in {h \in [1..m -> 1..Len(list)] :
                         \A k \in 1..(m - 1) : h[k] <= h[k + 1]}} :
           m \in lo..n}

PipelineGridSizes == {2, 3}

ExampleBnd == <<Rect(0, 0, 10, 10)>>
ExamplePoints == <<Point(1, 1, 2), Point(1, 4, 4)>>

InitBounded ==
    /\ bnd_ \in Frames(PolyList, 1, MaxPolys)
    /\ grid_size \in PipelineGridSizes
    /\ index_bot20_within_bnd \in Frames(PointList, 0, MaxPoints)

InitExample ==
    /\ bnd_ = ExampleBnd
    /\ grid_size = 5
    /\ index_bot20_within_bnd = ExamplePoints

Init ==
    /\ pc = "ready"
    /\ called = ""
    /\ x1 = None /\ y1 = None /\ x2 = None /\ y2 = None
    /\ round_decimal_digits = 0
    /\ InitBounded \/ InitExample
    /\ index_method \in {"reverse", "reverse_log"}
    /\ grid = <<>>
    /\ points_within_grid = <<>>
    /\ dLon = 0
    /\ ret = [kind |-> "pending"]

VisualizeByIndex ==
    /\ pc = "ready"
    /\ LET created == create_grid(bnd_, grid_size)
       IN  IF created.kind # "GeoDataFrame"
           THEN /\ ret' = [kind |-> created.kind]
                /\ pc' = "raised"
                /\ UNCHANGED <<grid, points_within_grid>>
           ELSE LET filtered == sjoin_intersects(created.rows, bnd_)
                    joined == sjoin_within(index_bot20_within_bnd, filtered)
                    pwg == AddReverse(joined, index_method)
                IN  /\ points_within_grid' = pwg
                    /\ grid' = AssignColumn(filtered, pwg)
                    /\ ret' = [kind |-> "None"]
                    /\ pc' = "returned"
    /\ called' = "visualize_by_index"
    /\ UNCHANGED <<distVars, gridVars, dLon>>

Next == VisualizeByIndex

Spec == Init /\ [][Next]_vars

(***************************************************************************)
(* Properties of the distance functions (SpecDist).                        *)
(***************************************************************************)
DistanceCalled ==
    /\ pc # "ready"
    /\ called \in {"get_harversion_distance", "get_euclidean_distance"}

SomeArgIsNone ==
    \/ x1.t = "none" \/ y1.t = "none" \/ x2.t = "none" \/ y2.t = "none"

LonInside(a) == a.t = "num" /\ a.v >= -180 /\ a.v <= 180
LatInside(b) == b.t = "num" /\ b.v >= -90 /\ b.v <= 90
LonOutside(a) == a.t = "num" /\ (a.v < -180 \/ a.v > 180)
LatOutside(b) == b.t = "num" /\ (b.v < -90 \/ b.v > 90)

\* C6: whenever at least one of x1, y1, x2, y2 is None, both distance
\* functions return None and raise nothing, whatever the other arguments are
\* (non-numeric or out of range included).
C6_NoneReturnsNone ==
    (DistanceCalled /\ SomeArgIsNone) => (pc = "returned" /\ ret.kind = "None")

C6_Witness ==
    /\ called = "get_harversion_distance"
    /\ pc = "returned"
    /\ x1 = Num(200) /\ y1 = NotANumber /\ x2 = Num(0) /\ y2 = None
    /\ ret.kind = "None"

\* C7: with four non-None arguments, a longitude outside [-180, 180] or a
\* latitude outside [-90, 90] makes both functions raise and yield no
\* distance; with all four inside the ranges, bounds included, nothing is
\* raised and a distance is returned.
C7_RangeAssertions ==
    (DistanceCalled /\ ~SomeArgIsNone) =>
        /\ (LonOutside(x1) \/ LonOutside(x2) \/ LatOutside(y1) \/ LatOutside(y2))
              => (pc = "raised" /\ ret.kind = "AssertionError")
        /\ (LonInside(x1) /\ LonInside(x2) /\ LatInside(y1) /\ LatInside(y2))
              => (pc = "returned" /\ ret.kind = "float")

C7_Witness ==
    /\ called = "get_euclidean_distance"
    /\ pc = "returned"
    /\ x1 = Num(-180) /\ y1 = Num(-90) /\ x2 = Num(180) /\ y2 = Num(90)
    /\ ret.kind = "float"

ShorterWay(a1, a2) ==
    IF Abs(a2 - a1) <= 360 - Abs(a2 - a1) THEN Abs(a2 - a1) ELSE 360 - Abs(a2 - a1)

\* C8: in get_euclidean_distance the longitude difference that enters the
\* distance has magnitude min(|x2-x1|, 360-|x2-x1|), never more than 180; the
\* result is the rounded root of that magnitude squared plus (y2-y1)^2, and
\* the distance from (179,0) to (-179,0) is 2.
C8_Antimeridian ==
    (called = "get_euclidean_distance" /\ pc = "returned" /\ ret.kind = "float") =>
        /\ Abs(dLon) = ShorterWay(x1.v, x2.v)
        /\ Abs(dLon) <= 180
        /\ ret.scaled = RoundSqrt(ShorterWay(x1.v, x2.v) * ShorterWay(x1.v, x2.v)
                                  + (y2.v - y1.v) * (y2.v - y1.v), ret.digits)
        /\ (x1.v = 179 /\ y1.v = 0 /\ x2.v = -179 /\ y2.v = 0)
              => ret.scaled = 2 * Pow10(ret.digits)

C8_Witness ==
    /\ called = "get_euclidean_distance"
    /\ pc = "returned"
    /\ x1 = Num(179) /\ y1 = Num(0) /\ x2 = Num(-179) /\ y2 = Num(0)
    /\ dLon = -2
    /\ ret.kind = "float" /\ ret.scaled = 2 * Pow10(ret.digits)

(***************************************************************************)
(* Properties of create_grid (SpecGrid: the frame has one geometry).       *)
(***************************************************************************)
GridCalled == called = "create_grid" /\ pc # "ready"

W == bnd_[1].maxx - bnd_[1].minx
H == bnd_[1].maxy - bnd_[1].miny

\* ceil(a / S) for a >= 0 and S > 0
CeilOf(a, S) == CHOOSE n \in 0..(a + 1) : n * S >= a /\ (n - 1) * S < a

\* C3: for a bounding box of width W >= 0 and height H >= 0 and a grid size
\* S > 0, create_grid returns exactly ceil(H/S) * ceil(W/S) cells.
C3_CellCount ==
    (GridCalled /\ grid_size > 0) =>
        /\ pc = "returned"
        /\ Len(grid) = CeilOf(H, grid_size) * CeilOf(W, grid_size)

C3_Witness ==
    /\ GridCalled /\ pc = "returned"
    /\ grid_size = 2 /\ W = 4 /\ H = 3
    /\ Len(grid) = 4

\* C4: create_grid called with a grid size that is zero or negative raises
\* an error and never returns a grid.
C4_NonPositiveSizeRaises ==
    (GridCalled /\ grid_size <= 0) => pc = "raised"

CellAt(i, j) ==
    Polygon(bnd_[1].minx + i * grid_size, bnd_[1].minx + (i + 1) * grid_size,
            bnd_[1].maxy - j * grid_size, bnd_[1].maxy - (j + 1) * grid_size)

ColumnMajorLayout ==
    LET rows == CeilOf(H, grid_size)
        cols == CeilOf(W, grid_size)
    IN  /\ Len(grid) = rows * cols
        /\ \A i \in 0..(cols - 1), j \in 0..(rows - 1) :
              /\ grid[i * rows + j + 1].index = i * rows + j
              /\ grid[i * rows + j + 1].geometry = CellAt(i, j)

CellsHaveSideS ==
    \A k \in 1..Len(grid) :
        /\ grid[k].geometry.x_right - grid[k].geometry.x_left = grid_size
        /\ grid[k].geometry.y_top - grid[k].geometry.y_bottom = grid_size

InteriorsDisjoint ==
    \A k, l \in 1..Len(grid) :
        k # l =>
            \/ grid[k].geometry.x_right <= grid[l].geometry.x_left
            \/ grid[l].geometry.x_right <= grid[k].geometry.x_left
            \/ grid[k].geometry.y_top <= grid[l].geometry.y_bottom
            \/ grid[l].geometry.y_top <= grid[k].geometry.y_bottom

\* every point of the bounding box lies in some (closed) cell: the lattice
\* points and the unit squares between them
CoversBoundingBox ==
    /\ \A px \in bnd_[1].minx..bnd_[1].maxx, py \in bnd_[1].miny..bnd_[1].maxy :
          \E k \in 1..Len(grid) :
              /\ grid[k].geometry.x_left <= px /\ px <= grid[k].geometry.x_right
              /\ grid[k].geometry.y_bottom <= py /\ py <= grid[k].geometry.y_top
    /\ \A px \in bnd_[1].minx..(bnd_[1].maxx - 1), py \in bnd_[1].miny..(bnd_[1].maxy - 1) :
          \E k \in 1..Len(grid) :
              /\ grid[k].geometry.x_left <= px /\ px + 1 <= grid[k].geometry.x_right
              /\ grid[k].geometry.y_bottom <= py /\ py + 1 <= grid[k].geometry.y_top

OverhangRightBottomOnly ==
    \A k \in 1..Len(grid) :
        /\ grid[k].geometry.x_left >= bnd_[1].minx
        /\ grid[k].geometry.y_top <= bnd_[1].maxy
        /\ grid[k].geometry.x_right - bnd_[1].maxx < grid_size
        /\ bnd_[1].miny - grid[k].geometry.y_bottom < grid_size

\* C10 as stated: column-major layout from the top-left origin; all cells
\* have side S, distinct cells have disjoint interiors, and the cells cover
\* the whole bounding box, overhanging only right and bottom by less than S.
C10_LayoutCoversBox ==
    (GridCalled /\ grid_size > 0) =>
        /\ ColumnMajorLayout
        /\ CellsHaveSideS
        /\ InteriorsDisjoint
        /\ CoversBoundingBox
        /\ OverhangRightBottomOnly

\* C10 amended: the same, the cover being claimed only for a bounding box
\* with W > 0 and H > 0 (a box of zero width or height gets no cell).
C10_LayoutCoversProperBox ==
    (GridCalled /\ grid_size > 0) =>
        /\ ColumnMajorLayout
        /\ CellsHaveSideS
        /\ InteriorsDisjoint
        /\ (W > 0 /\ H > 0) => CoversBoundingBox
        /\ (W = 0 \/ H = 0) => grid = <<>>
        /\ OverhangRightBottomOnly

C10_Witness ==
    /\ GridCalled /\ pc = "returned"
    /\ grid_size = 3 /\ W = 4 /\ H = 4 /\ bnd_[1].minx = 0 /\ bnd_[1].miny = 0
    /\ Len(grid) = 4
    /\ grid[4].geometry = Polygon(3, 6, 1, -2)

(***************************************************************************)
(* Properties of the grid pipeline of visualize_by_index (Spec).           *)
(***************************************************************************)
Done == called = "visualize_by_index" /\ pc = "returned"

RowsOfPoint(p) == SelectSeq(points_within_grid, LAMBDA r : r.index = p - 1)

\* p lies within the footprint of the filtered grid: strictly inside one of
\* the retained cells (a point on an edge shared by two cells is within
\* neither of them and is left to no cell)
WithinFootprint(p) ==
    \E r \in 1..Len(grid) :
        /\ grid[r].geometry.x_left < p.x /\ p.x < grid[r].geometry.x_right
        /\ grid[r].geometry.y_bottom < p.y /\ p.y < grid[r].geometry.y_top

\* C1: each point contributes its transformed weight to at most one cell
\* and at most once, and the points that contribute are exactly those lying
\* within the footprint of the filtered grid; a cell that intersects two
\* polygons of the region does not count a point inside it twice.
C1_PointCountedOnce ==
    Done =>
        \A p \in 1..Len(index_bot20_within_bnd) :
            /\ Len(RowsOfPoint(p)) <= 1
            /\ (Len(RowsOfPoint(p)) >= 1) <=> WithinFootprint(index_bot20_within_bnd[p])

ExampleRun ==
    /\ Done
    /\ bnd_ = ExampleBnd /\ grid_size = 5
    /\ index_bot20_within_bnd = ExamplePoints
    /\ index_method = "reverse"

ThreeQuarters == [kind |-> "num", n |-> 3, d |-> 4]

\* the example's outcome with both points in the cell of index label c
ExampleOutcome(c) ==
    /\ Len(grid) = 4
    /\ Len(points_within_grid) = 2
    /\ \A k \in 1..Len(points_within_grid) : points_within_grid[k].index_right = c
    /\ \A r \in 1..Len(grid) :
          grid[r].idx_sum_reverse = IF grid[r].index = c THEN ThreeQuarters ELSE NaN

\* C2 as stated: bounding box (0,0)-(10,10), grid size 5: 4 cells; the
\* points (1,1) and (1,4) fall in the top-left cell, the first cell built
\* (x = xmin, y = ymax), whose aggregate under 'reverse' is 3/4; the other
\* three cells have no value.
C2_ExampleTopLeft ==
    ExampleRun =>
        /\ \E r \in 1..Len(grid) :
              /\ grid[r].index = 0
              /\ grid[r].geometry.x_left = 0 /\ grid[r].geometry.y_top = 10
        /\ ExampleOutcome(0)

\* C2 amended: for the square region (0,0)-(10,10) and grid size 5 the grid
\* has 4 cells; both points fall in the bottom-left cell, the second cell
\* built (x from 0 to 5, y from 0 to 5); its aggregate under 'reverse' is
\* 3/4 and the other three cells, the top-left one included, have no value.
C2_ExampleBottomLeft ==
    ExampleRun =>
        /\ \E r \in 1..Len(grid) :
              /\ grid[r].index = 1
              /\ grid[r].geometry = Polygon(0, 5, 5, 0)
        /\ ExampleOutcome(1)

C2_Witness ==
    /\ ExampleRun
    /\ \E r \in 1..Len(grid) : grid[r].idx_sum_reverse = ThreeQuarters

\* C5: a point whose total_idx is zero makes the aggregation fail: the
\* pipeline never reaches the per-cell sum with such a point among the
\* assigned points.
C5_ZeroIdxIsFatal ==
    (called = "visualize_by_index" /\ pc # "ready"
        /\ \E k \in 1..Len(points_within_grid) : points_within_grid[k].total_idx = 0)
    => pc = "raised"

\* the weight of total_idx t, and the exact sum of the weights of a sequence
\* of total_idx values as a fraction <<n, d>> (for 'reverse_log': the sum is
\* ln(n/d))
ExpectedWeight(t) ==
    IF t = 0 THEN Inf
    ELSE IF index_method = "reverse" THEN [kind |-> "num", n |-> 1, d |-> t]
    ELSE [kind |-> "ln", n |-> t + 1, d |-> t]

RECURSIVE ExpectedFraction(_)
ExpectedFraction(ts) ==
    IF ts = <<>> THEN IF index_method = "reverse" THEN <<0, 1>> ELSE <<1, 1>>
    ELSE LET rest == ExpectedFraction(Tail(ts))
             t == Head(ts)
         IN  IF index_method = "reverse"
             THEN <<rest[1] * t + rest[2], rest[2] * t>>
             ELSE <<rest[1] * (t + 1), rest[2] * t>>

AssignedTo(c) == SelectSeq(points_within_grid, LAMBDA r : r.index_right = c)

IsSumOf(v, ts) ==
    IF \E k \in 1..Len(ts) : ts[k] = 0 THEN v = Inf
    ELSE /\ v.kind = IF index_method = "reverse" THEN "num" ELSE "ln"
         /\ v.n * ExpectedFraction(ts)[2] = ExpectedFraction(ts)[1] * v.d

====
